---- MODULE Spec2Model ----
(***************************************************************************)
(* Render worker of unrealRenderFarm (requestWorker.py).                   *)
(*                                                                         *)
(* The worker polls the Job Source, filters the jobs assigned to           *)
(* WORKER_NAME that are ready_to_start, and for each of them writes the    *)
(* in_progress claim, runs render() (spawn the external process, poll it,  *)
(* heartbeat while it is alive, communicate()), and writes finished or     *)
(* errored.  Every step of the main loop and of render() that reads or     *)
(* writes shared state (the Job Source, the external process) is one       *)
(* action.  The Job Source (util.client, util.renderRequest) is not part   *)
(* of requestWorker.py; its calls succeed, fail silently or raise.         *)
(***************************************************************************)
EXTENDS Integers, Sequences, FiniteSets, TLC

\* ------------------------------------------------------------------ bounds
MaxPasses == 2      \* passes of the while True loop that are explored
MaxBeats == 2       \* heartbeats of a run that are explored
MaxStall == 55      \* longest extra delay of one heartbeat period, seconds
MaxSetBack == 10    \* largest step back of the wall clock, seconds

\* ---------------------------------------------------------------- constants
WORKER_NAME == "RENDER_MACHINE_01"
OTHER_WORKER == "RENDER_MACHINE_02"

ready_to_start == "ready_to_start"
in_progress == "in_progress"
finished == "finished"
errored == "errored"
RenderStatus == {ready_to_start, in_progress, finished, errored}

BASELINE == 60          \* assumed duration of a render, seconds
HEARTBEAT_SLEEP == 5    \* time.sleep(5) between heartbeats

\* time.time() returns seconds as a float; the model counts readings of
\* time.time() - start_time in milliseconds, a reading between two
\* milliseconds counting as the next one.
Second == 1000

\* The time between start_time = time.time() and the first reading of
\* time.time() in the loop when the clock has advanced in between: a
\* fraction of a second, here one millisecond.
Latency == 1

\* Readings are explored within -DoubleRange..DoubleRange seconds.
DoubleRange == 200

\* The magnitudes e of the readings (milliseconds, within DoubleRange) at
\* which the double arithmetic ((e / 1000) / 60) * 100 of line 90 ends one
\* unit in the last place below the exact integer quotient, so that int()
\* yields one less in magnitude than the exact quotient.
DoubleShort ==
    {16200, 17400, 23400, 32400, 34800, 46800, 47400, 64800, 66600, 67800,
     69000, 69600, 78600, 79800, 93600, 94800, 108600, 109800, 120600,
     121800, 123000, 124200, 129600, 133200, 135600, 138000, 139200,
     142200, 144600, 148200, 150600, 153000, 157200, 159600, 172200,
     174600, 187200, 189600}

\* The jobs of the Job Source, in the order get_all_requests returns them.
JobOrder == <<"J1", "J2", "J3">>
Jobs == {JobOrder[i] : i \in 1..Len(JobOrder)}

\* The payload of a job: the three Unreal paths, opaque to the worker.
PayloadOf(j) == [umap_path |-> "map_" \o j,
                 useq_path |-> "seq_" \o j,
                 uconfig_path |-> "cfg_" \o j]

\* Outcomes of a Job Source call.
OK == "ok"
SILENT == "silent"
RAISE == "raise"
UpdateOutcomes == {OK, SILENT, RAISE}
FetchOutcomes == {OK, SILENT, RAISE}
LoadOutcomes == {OK, RAISE}
SpawnOutcomes == {OK, RAISE}
ExitCodes == {0, 1}

VARIABLES
    db,          \* Job Source: job id -> record
    proc,        \* Popen object of the current render(): state, exit code,
                 \* whether its stdout and stderr pipes are at end-of-file
    orphans,     \* job -> live processes that render() left behind
    pc,          \* position of the worker in the main loop / render()
    passes,      \* number of fetches done
    uids,        \* eligible job ids of this pass still to be processed
    snap,        \* eligible job ids of this pass (the list uids as built)
    uid,         \* job id of the current for-iteration
    rrequest,    \* object loaded by from_db for the current job
    elapsed,     \* elapsed_time last read by the current render(), ms
    beats,       \* heartbeats sent so far
    log,         \* history: events of the current for-iteration
    lastw,       \* history: job -> last status write of the current
                 \* for-iteration
    codes,       \* history: job -> exit code render() returned in the
                 \* current for-iteration
    sealed       \* history: job -> a terminal write was issued and the job
                 \* has not been re-queued since

vars == <<db, proc, orphans, pc, passes, uids, snap, uid, rrequest, elapsed, beats,
          log, lastw, codes, sealed>>

NoJob == "none"
NoRequest == [uid |-> NoJob]
NoProc == [state |-> "none", code |-> 0, eof |-> FALSE]
NoWrite == [op |-> "none"]
NoCode == -1

\* ------------------------------------------------------- pure computations

Min(a, b) == IF a <= b THEN a ELSE b

\* int(x) of Python for the quotient n/d, d > 0: truncation towards zero.
TruncDiv(n, d) == IF n >= 0 THEN n \div d ELSE -((-n) \div d)

\* int((elapsed_time / 60) * 100) for a reading of e milliseconds, as the
\* double arithmetic computes it.
Percent(e) ==
    LET exact == TruncDiv(e * 100, BASELINE * Second)
    IN IF e \in DoubleShort THEN exact - 1
       ELSE IF -e \in DoubleShort THEN exact + 1
       ELSE exact

\* progress = min(100, int((elapsed_time / 60) * 100))
Progress(e) == Min(100, Percent(e))

\* time_estimate = '{}s'.format(int(60 - elapsed_time))
TimeEstimate(e) == ToString(TruncDiv(BASELINE * Second - e, Second)) \o "s"

\* Mutant of Eligible: the filter forgets the owner.
RECURSIVE EligibleAnyOwner(_)
EligibleAnyOwner(rs) ==
    IF rs = <<>> THEN <<>>
    ELSE LET r == Head(rs) IN
         IF r.status = ready_to_start
         THEN <<r.uid>> \o EligibleAnyOwner(Tail(rs))
         ELSE EligibleAnyOwner(Tail(rs))

\* uids = [r.uid for r in rrequests if r.worker == WORKER_NAME
\*                                  and r.status == ready_to_start]
RECURSIVE Eligible(_)
Eligible(rs) ==
    IF rs = <<>> THEN <<>>
    ELSE LET r == Head(rs) IN
         IF r.worker = WORKER_NAME /\ r.status = ready_to_start
         THEN <<r.uid>> \o Eligible(Tail(rs))
         ELSE Eligible(Tail(rs))

\* get_all_requests(): every job of the Job Source, in source order.
GetAllRequests(d) ==
    [i \in 1..Len(JobOrder) |->
        [uid |-> JobOrder[i],
         worker |-> d[JobOrder[i]].worker,
         status |-> d[JobOrder[i]].status]]

\* The upsert of the mutable fields of one job.
UpdateRequest(d, u, progress, status, time_estimate) ==
    [d EXCEPT ![u].progress = progress,
              ![u].status = status,
              ![u].time_estimate = time_estimate]

\* The Job Source after an update call with the given outcome.
Applied(d, u, progress, status, time_estimate, outcome) ==
    IF outcome = OK THEN UpdateRequest(d, u, progress, status, time_estimate)
    ELSE d

\* History record of a status write.
WriteEvent(u, progress, status, time_estimate, kind) ==
    [op |-> "write", kind |-> kind, uid |-> u, progress |-> progress,
     status |-> status, time_estimate |-> time_estimate]

\* History record of an exception raised by the call named `at`.
RaiseEvent(u, at) == [op |-> "raise", uid |-> u, at |-> at]

\* A status write issued by the worker: the Job Source and the history.
IssueUpdate(u, progress, status, time_estimate, outcome, kind) ==
    /\ db' = Applied(db, u, progress, status, time_estimate, outcome)
    /\ log' = log \o <<WriteEvent(u, progress, status, time_estimate, kind)>>
                  \o (IF outcome = RAISE THEN <<RaiseEvent(u, kind)>>
                      ELSE <<>>)
    /\ lastw' = [lastw EXCEPT ![u] = [op |-> "write", status |-> status,
                                      progress |-> progress,
                                      time_estimate |-> time_estimate,
                                      outcome |-> outcome]]
    /\ sealed' = IF status \in {finished, errored}
                 THEN [sealed EXCEPT ![u] = TRUE] ELSE sealed

\* ------------------------------------------------------------------- Init

InitStatus(j) ==
    CASE j = "J1" -> {ready_to_start, finished}
      [] j = "J2" -> {ready_to_start, in_progress}
      [] OTHER    -> {ready_to_start}

InitWorker(j) == IF j = "J3" THEN OTHER_WORKER ELSE WORKER_NAME

Init ==
    /\ db \in {d \in [Jobs -> [worker : {WORKER_NAME, OTHER_WORKER},
                               status : RenderStatus,
                               progress : {0},
                               time_estimate : {""},
                               payload : {PayloadOf(j) : j \in Jobs}]] :
                 \A j \in Jobs : /\ d[j].worker = InitWorker(j)
                                 /\ d[j].status \in InitStatus(j)
                                 /\ d[j].payload = PayloadOf(j)}
    /\ proc = NoProc
    /\ orphans = [j \in Jobs |-> 0]
    /\ pc = "fetch"
    /\ passes = 0
    /\ uids = <<>>
    /\ snap = <<>>
    /\ uid = NoJob
    /\ rrequest = NoRequest
    /\ elapsed = 0
    /\ beats = 0
    /\ log = <<>>
    /\ lastw = [j \in Jobs |-> NoWrite]
    /\ codes = [j \in Jobs |-> NoCode]
    /\ sealed = [j \in Jobs |-> FALSE]

\* --------------------------------------------------------- the main loop

\* rrequests = client.get_all_requests(); uids = [...]
\* outcomes: the outcomes of the call that are explored; counted: 1 when
\* the pass counts against MaxPasses, 0 when it does not.
FetchWith(outcomes, counted) ==
    /\ pc = "fetch"
    /\ passes < MaxPasses
    /\ passes' = passes + counted
    /\ log' = <<>>
    /\ lastw' = [j \in Jobs |-> NoWrite]
    /\ codes' = [j \in Jobs |-> NoCode]
    /\ \E outcome \in outcomes :
         \/ /\ outcome = OK
            /\ uids' = Eligible(GetAllRequests(db))
            /\ pc' = "for"
         \/ /\ outcome = SILENT
            /\ uids' = Eligible(<<>>)
            /\ pc' = "for"
         \/ /\ outcome = RAISE
            /\ uids' = <<>>
            /\ pc' = "crashed"
    /\ snap' = uids'
    /\ UNCHANGED <<db, proc, orphans, uid, rrequest, elapsed, beats, sealed>>

Fetch == FetchWith(FetchOutcomes, 1)

\* Mutant of ForNext: the for loop ends after its first iteration.
ForNextSkipsRest ==
    /\ pc = "for"
    /\ IF uids = <<>> \/ Len(uids) < Len(snap)
       THEN /\ pc' = "idle"
            /\ UNCHANGED <<uid, uids>>
       ELSE /\ uid' = Head(uids)
            /\ uids' = Tail(uids)
            /\ pc' = "from_db"
    /\ log' = <<>>
    /\ lastw' = [j \in Jobs |-> NoWrite]
    /\ codes' = [j \in Jobs |-> NoCode]
    /\ UNCHANGED <<db, proc, orphans, passes, snap, rrequest, elapsed,
                   beats, sealed>>

\* for uid in uids: the next iteration, or the end of the loop body.
ForNext ==
    /\ pc = "for"
    /\ IF uids = <<>>
       THEN /\ pc' = "idle"
            /\ UNCHANGED <<uid, uids>>
       ELSE /\ uid' = Head(uids)
            /\ uids' = Tail(uids)
            /\ pc' = "from_db"
    /\ log' = <<>>
    /\ lastw' = [j \in Jobs |-> NoWrite]
    /\ codes' = [j \in Jobs |-> NoCode]
    /\ UNCHANGED <<db, proc, orphans, passes, snap, rrequest, elapsed,
                   beats, sealed>>

\* rrequest = renderRequest.RenderRequest.from_db(uid)   (outside the try)
FromDbWith(outcomes) ==
    /\ pc = "from_db"
    /\ \E outcome \in outcomes :
         \/ /\ outcome = OK
            /\ rrequest' = [uid |-> uid, payload |-> db[uid].payload]
            /\ pc' = "claim"
         \/ /\ outcome = RAISE
            /\ rrequest' = rrequest
            /\ pc' = "crashed"
    /\ UNCHANGED <<db, proc, orphans, passes, uids, snap, uid, elapsed, beats,
                   log, lastw, codes, sealed>>

FromDb == FromDbWith(LoadOutcomes)

\* Mutant of Claim: render() is entered without the claim write.
ClaimSkipsWrite ==
    /\ pc = "claim"
    /\ pc' = "render"
    /\ UNCHANGED <<db, proc, orphans, passes, uids, snap, uid, rrequest, elapsed,
                   beats, log, lastw, codes, sealed>>

\* rrequest.update(progress=0, status=in_progress,
\*                 time_estimate='Calculando...')      (first call of the try)
ClaimWith(outcomes) ==
    /\ pc = "claim"
    /\ \E outcome \in outcomes :
         /\ IssueUpdate(rrequest.uid, 0, in_progress, "Calculando...",
                        outcome, "claim")
         /\ pc' = IF outcome = RAISE THEN "except_exc" ELSE "render"
    /\ UNCHANGED <<proc, orphans, passes, uids, snap, uid, rrequest, elapsed,
                   beats, codes>>

Claim == ClaimWith(UpdateOutcomes)

\* ---------------------------------------------------------------- render()

\* Mutant of RenderArgs: the map and sequence paths change places.
RenderArgsSwapped(r) ==
    [umap_path |-> r.payload.useq_path,
     useq_path |-> r.payload.umap_path,
     uconfig_path |-> r.payload.uconfig_path]

\* The arguments of the call render(uid, rrequest.umap_path,
\* rrequest.useq_path, rrequest.uconfig_path), as render() receives them.
RenderArgs(r) ==
    [umap_path |-> r.payload.umap_path,
     useq_path |-> r.payload.useq_path,
     uconfig_path |-> r.payload.uconfig_path]

\* render(uid, umap_path, useq_path, uconfig_path): build the command,
\* proc = subprocess.Popen(...); start_time = time.time()
Spawn ==
    /\ pc = "render"
    /\ \E outcome \in SpawnOutcomes :
         /\ log' = log \o <<[op |-> "render", uid |-> uid,
                              payload |-> RenderArgs(rrequest)]>>
                       \o (IF outcome = RAISE
                           THEN <<RaiseEvent(uid, "spawn")>> ELSE <<>>)
         /\ IF outcome = OK
            THEN /\ proc' = [state |-> "alive", code |-> 0, eof |-> FALSE]
                 /\ pc' = "poll"
            ELSE /\ proc' = NoProc
                 /\ pc' = "except_exc"
    /\ elapsed' = 0
    /\ UNCHANGED <<db, orphans, passes, uids, snap, uid, rrequest, beats, lastw,
                   codes, sealed>>

\* proc.poll() is None: the process has not exited, whether it is running
\* or waiting to write into a full stdout or stderr pipe.
Running(p) == p.state \in {"alive", "blocked"}

\* while proc.poll() is None:
Poll ==
    /\ pc = "poll"
    /\ IF Running(proc)
       THEN /\ beats < MaxBeats
            /\ log' = Append(log, [op |-> "poll", uid |-> uid,
                                   alive |-> TRUE])
            /\ pc' = "heartbeat"
       ELSE /\ log' = Append(log, [op |-> "poll", uid |-> uid,
                                   alive |-> FALSE])
            /\ pc' = "communicate"
    /\ UNCHANGED <<db, proc, orphans, passes, uids, snap, uid, rrequest, elapsed,
                   beats, lastw, codes, sealed>>

\* The change of time.time() between two readings of the heartbeat loop: the
\* five seconds of the sleep, a longer period when the update call or the
\* scheduler stalls, or less (even a negative amount) when the system clock
\* is set back meanwhile: time.time() is the wall clock, not a monotonic one.
ClockSteps ==
    {HEARTBEAT_SLEEP * Second,
     (HEARTBEAT_SLEEP + MaxStall) * Second,
     (HEARTBEAT_SLEEP - MaxSetBack) * Second}

\* elapsed_time = time.time() - start_time: the readings the n-th heartbeat
\* of a render() call can make, given the previous reading.  The first one
\* is 0 when the clock has not advanced since start_time was taken, and a
\* fraction of a second otherwise.
ElapsedTime(previous, n) ==
    IF n = 0 THEN {0, Latency}
    ELSE {previous + d : d \in ClockSteps}
           \cap (-(DoubleRange * Second))..(DoubleRange * Second)

\* The number of readings of elapsed_time the current render() call has
\* made: one per heartbeat it has sent (the history of the iteration).
Readings(l) ==
    Cardinality({i \in DOMAIN l : l[i].op = "write" /\ l[i].kind = "heartbeat"})

\* Mutant of SendStatusUpdate: the last two arguments are passed on in the
\* order they were received.
SendStatusUpdateKeepsOrder(u, progress, time_estimate, status) ==
    <<u, progress, time_estimate, status>>

\* send_status_update(uid, progress, time_estimate, status): the arguments
\* of the call client.update_request(uid, progress, status, time_estimate).
SendStatusUpdate(u, progress, time_estimate, status) ==
    <<u, progress, status, time_estimate>>

\* elapsed_time, progress, time_estimate; send_status_update(uid, progress,
\* time_estimate, in_progress).  An exception leaves render() while the
\* process may still be running.
HeartbeatWith(outcomes) ==
    /\ pc = "heartbeat"
    /\ \E outcome \in outcomes,
          elapsed_time \in ElapsedTime(elapsed, Readings(log)) :
         /\ LET args == SendStatusUpdate(uid, Progress(elapsed_time),
                                         TimeEstimate(elapsed_time),
                                         in_progress)
            IN IssueUpdate(args[1], args[2], args[3], args[4], outcome,
                           "heartbeat")
         /\ IF outcome = RAISE
            THEN /\ pc' = "except_exc"
                 /\ proc' = NoProc
                 /\ orphans' = IF Running(proc)
                               THEN [orphans EXCEPT ![uid] = @ + 1]
                               ELSE orphans
                 /\ elapsed' = 0
            ELSE /\ pc' = "sleep"
                 /\ elapsed' = elapsed_time
                 /\ UNCHANGED <<proc, orphans>>
    /\ beats' = beats + 1
    /\ UNCHANGED <<passes, uids, snap, uid, rrequest, codes>>

Heartbeat == HeartbeatWith(UpdateOutcomes)

\* time.sleep(5)
Sleep ==
    /\ pc = "sleep"
    /\ pc' = "poll"
    /\ UNCHANGED <<db, proc, orphans, passes, uids, snap, uid, rrequest, elapsed,
                   beats, log, lastw, codes, sealed>>

\* Mutant of AfterReturn: the test of the exit code is inverted.
AfterReturnInverted(code) ==
    IF code = 0 THEN {"except_cpe", "except_exc"} ELSE {"finish"}

\* Mutant of AfterReturn: the exit code is not looked at.
AfterReturnIgnoresCode(code) == {"finish"}

\* The handler a returned exit code leads to.
\* if returncode != 0: raise CalledProcessError(returncode, ...,
\* stderr.decode())   (stderr.decode() may itself raise, which the
\* except Exception clause catches); otherwise the finished write.
AfterReturn(code) ==
    IF code # 0 THEN {"except_cpe", "except_exc"} ELSE {"finish"}

\* stdout, stderr = proc.communicate() raises.
CommunicateRaises ==
    /\ pc = "communicate"
    /\ proc.state = "exited"
    /\ log' = Append(log, RaiseEvent(uid, "communicate"))
    /\ pc' = "except_exc"
    /\ proc' = NoProc
    /\ elapsed' = 0
    /\ UNCHANGED <<db, orphans, passes, uids, snap, uid, rrequest, beats, lastw,
                   codes, sealed>>

\* stdout, stderr = proc.communicate(); return proc.returncode, stdout,
\* stderr: communicate() reads both pipes up to end-of-file, which is
\* later than the exit of the process when a process it started holds the
\* pipes.  Back in the loop: if returncode != 0: raise CalledProcessError(
\* returncode, ..., stderr.decode())   (stderr.decode() may itself raise,
\* which the except Exception clause catches).
RenderReturn ==
    /\ pc = "communicate"
    /\ proc.state = "exited"
    /\ proc.eof
    /\ codes' = [codes EXCEPT ![uid] = proc.code]
    /\ log' = Append(log, [op |-> "returned", uid |-> uid,
                           code |-> proc.code])
    /\ pc' \in AfterReturn(proc.code)
    /\ proc' = NoProc
    /\ elapsed' = 0
    /\ UNCHANGED <<db, orphans, passes, uids, snap, uid, rrequest, beats, lastw,
                   sealed>>

\* ------------------------------------------------- outcome of the job

\* rrequest.update(progress=100, status=finished, time_estimate='N/A')
\* (still inside the try)
FinishWith(outcomes) ==
    /\ pc = "finish"
    /\ \E outcome \in outcomes :
         /\ IssueUpdate(rrequest.uid, 100, finished, "N/A", outcome,
                        "finished")
         /\ pc' = IF outcome = RAISE THEN "except_exc" ELSE "for"
    /\ UNCHANGED <<proc, orphans, passes, uids, snap, uid, rrequest, elapsed,
                   beats, codes>>

Finish == FinishWith(UpdateOutcomes)

\* The errored write of a handler; an exception of it leaves the loop.
ErroredUpdateWith(kind, outcomes) ==
    \E outcome \in outcomes :
         /\ IssueUpdate(rrequest.uid, 0, errored, "0", outcome, kind)
         /\ pc' = IF outcome = RAISE THEN "crashed" ELSE "for"

ErroredUpdate(kind) == ErroredUpdateWith(kind, UpdateOutcomes)

\* except subprocess.CalledProcessError: rrequest.update(0, errored, '0')
ExceptCalledProcessErrorWith(outcomes) ==
    /\ pc = "except_cpe"
    /\ ErroredUpdateWith("errored_cpe", outcomes)
    /\ UNCHANGED <<proc, orphans, passes, uids, snap, uid, rrequest, elapsed,
                   beats, codes>>

\* except Exception: rrequest.update(0, errored, '0')
ExceptExceptionWith(outcomes) ==
    /\ pc = "except_exc"
    /\ ErroredUpdateWith("errored_exc", outcomes)
    /\ UNCHANGED <<proc, orphans, passes, uids, snap, uid, rrequest, elapsed,
                   beats, codes>>

ExceptCalledProcessError == ExceptCalledProcessErrorWith(UpdateOutcomes)

ExceptException == ExceptExceptionWith(UpdateOutcomes)

\* time.sleep(10), then the next pass.
IdleSleep ==
    /\ pc = "idle"
    /\ passes < MaxPasses
    /\ pc' = "fetch"
    /\ UNCHANGED <<db, proc, orphans, passes, uids, snap, uid, rrequest, elapsed,
                   beats, log, lastw, codes, sealed>>

\* ------------------------------------------------------------ environment

\* The external process fills the pipe of its stdout or stderr (Popen is
\* given stdout=PIPE and stderr=PIPE, and render() reads them only in
\* communicate(), after the process has exited): it waits in its write and
\* cannot exit.
ProcBlock ==
    /\ proc.state = "alive"
    /\ proc' = [proc EXCEPT !.state = "blocked"]
    /\ UNCHANGED <<db, orphans, pc, passes, uids, snap, uid, rrequest, elapsed,
                   beats, log, lastw, codes, sealed>>

\* The external process of the current render() exits.  Its ends of the
\* stdout and stderr pipes are closed with it; the pipes are at end-of-file
\* unless a process it started has inherited them and still runs.
ProcExit ==
    /\ proc.state = "alive"
    /\ \E code \in ExitCodes, eof \in BOOLEAN :
         proc' = [state |-> "exited", code |-> code, eof |-> eof]
    /\ UNCHANGED <<db, orphans, pc, passes, uids, snap, uid, rrequest, elapsed,
                   beats, log, lastw, codes, sealed>>

\* The last process that held the stdout and stderr pipes of the exited
\* process ends: the pipes are at end-of-file.
PipesEof ==
    /\ proc.state = "exited"
    /\ ~proc.eof
    /\ proc' = [proc EXCEPT !.eof = TRUE]
    /\ UNCHANGED <<db, orphans, pc, passes, uids, snap, uid, rrequest, elapsed,
                   beats, log, lastw, codes, sealed>>

\* A process that render() left behind exits.
OrphanExit ==
    /\ \E j \in Jobs :
         /\ orphans[j] > 0
         /\ orphans' = [orphans EXCEPT ![j] = @ - 1]
    /\ UNCHANGED <<db, proc, pc, passes, uids, snap, uid, rrequest, elapsed,
                   beats, log, lastw, codes, sealed>>

\* An external actor re-queues a job that is in a terminal status.
Requeue ==
    /\ \E j \in Jobs :
         /\ db[j].status \in {finished, errored}
         /\ db' = [db EXCEPT ![j].status = ready_to_start]
         /\ sealed' = [sealed EXCEPT ![j] = FALSE]
    /\ UNCHANGED <<proc, orphans, pc, passes, uids, snap, uid, rrequest, elapsed,
                   beats, log, lastw, codes>>

WorkerNext ==
    \/ Fetch \/ ForNext \/ FromDb \/ Claim
    \/ Spawn \/ Poll \/ Heartbeat \/ Sleep
    \/ CommunicateRaises \/ RenderReturn
    \/ Finish
    \/ ExceptCalledProcessError \/ ExceptException
    \/ IdleSleep

Next ==
    WorkerNext \/ ProcBlock \/ ProcExit \/ PipesEof \/ OrphanExit \/ Requeue

Spec == Init /\ [][Next]_vars

\* ------------------------------------------- the loop under fairness
\* The same loop when every call to the Job Source succeeds, with no limit
\* on the number of passes.  Popen and communicate may still raise, the
\* process may exit with any code, and jobs may be re-queued at any time.

FetchOk == FetchWith({OK}, 0)
FromDbOk == FromDbWith({OK})
ClaimOk == ClaimWith({OK})
HeartbeatOk == HeartbeatWith({OK})
FinishOk == FinishWith({OK})
ExceptCalledProcessErrorOk == ExceptCalledProcessErrorWith({OK})
ExceptExceptionOk == ExceptExceptionWith({OK})

WorkerNextOk ==
    \/ FetchOk \/ ForNext \/ FromDbOk \/ ClaimOk
    \/ Spawn \/ Poll \/ HeartbeatOk \/ Sleep \/ RenderReturn
    \/ FinishOk
    \/ ExceptCalledProcessErrorOk \/ ExceptExceptionOk
    \/ IdleSleep

NextOk ==
    WorkerNextOk \/ CommunicateRaises \/ ProcBlock \/ ProcExit \/ PipesEof
        \/ Requeue

\* The worker keeps running: weak fairness of its steps (one thread; the
\* poll loop waits for the exit of the process, communicate() for the
\* end-of-file of its pipes, and the sleeps end).  Whether the process exits
\* is left open: it depends on its output and on the worker, which does not
\* read the pipes while it polls.  Whether the pipes reach end-of-file after
\* the exit is left open too: it depends on the processes that inherited
\* them.  An exception out of communicate() is possible and never required.
SpecLive == Init /\ [][NextOk]_vars /\ WF_vars(WorkerNextOk)

\* ====================================================================
\* Properties
\* ====================================================================

TerminalStatus == {finished, errored}
IsWrite(e) == e.op = "write"
ExecutionPcs == {"poll", "heartbeat", "sleep", "communicate"}

\* C1 (ownership): no step issues a status write for a job whose assigned
\* worker differs from WORKER_NAME; such a job's record in the Job Source
\* is left as it was by every step of the worker (the only change it can
\* undergo is an external re-queueing of a terminal status).
C1_Ownership ==
    [][\A j \in Jobs :
         db[j].worker # WORKER_NAME =>
           /\ lastw'[j] = NoWrite
           /\ \A i \in DOMAIN log' : IsWrite(log'[i]) => log'[i].uid # j
           /\ \/ db'[j] = db[j]
              \/ /\ db[j].status \in TerminalStatus
                 /\ db'[j] = [db[j] EXCEPT !.status = ready_to_start]]_vars

\* C1 witness: the last iteration of a pass has run to its end, wrote to a
\* job of this worker, and a ready_to_start job of another worker was in the
\* fetched set.
C1_Witness ==
    /\ pc = "for"
    /\ uids = <<>>
    /\ \E j \in Jobs : /\ db[j].worker # WORKER_NAME
                       /\ db[j].status = ready_to_start
                       /\ lastw[j] = NoWrite
    /\ \E k \in Jobs : db[k].worker = WORKER_NAME /\ lastw[k] # NoWrite

\* C2 (claim before execution): render() is entered for a job only after
\* the claim write (in_progress, 0, placeholder) for that job was issued in
\* the same iteration; a process exists only after render() was entered;
\* and while the job executes, the last write is an in_progress write, so
\* that if it took effect the Job Source shows the job in_progress.
C2_ClaimBeforeExecution ==
    /\ \A i \in DOMAIN log :
         log[i].op = "render" =>
           \E k \in 1..(i - 1) :
              /\ IsWrite(log[k])
              /\ log[k].kind = "claim"
              /\ log[k].uid = log[i].uid
              /\ log[k].status = in_progress
              /\ log[k].progress = 0
              /\ log[k].time_estimate = "Calculando..."
    /\ proc.state # "none" =>
         \E i \in DOMAIN log : log[i].op = "render" /\ log[i].uid = uid
    /\ pc \in ExecutionPcs =>
         /\ lastw[uid] # NoWrite
         /\ lastw[uid].status = in_progress
         /\ lastw[uid].outcome = OK => db[uid].status = in_progress

\* C2 witness: the external process of a claimed job is running.
C2_Witness ==
    /\ pc \in ExecutionPcs
    /\ proc.state = "alive"
    /\ db[uid].status = in_progress

\* The per-job handler of job j is over in this pass (or was never entered).
HandlerDone(j) == j # uid \/ pc \in {"for", "idle", "fetch", "crashed"}

\* The events a step appends to the history of the iteration.
NewEvents == {i \in DOMAIN log' : i > Len(log) /\ Len(log') > Len(log)}

\* C3 (success outcome): when the iteration of a job is over (the pass does
\* not write to the job again), a job whose external process returned exit
\* code zero was last written finished with progress 100.
C3_ZeroExitFinished ==
    pc = "for" =>
      \A j \in Jobs :
        codes[j] = 0 => /\ lastw[j].status = finished
                        /\ lastw[j].progress = 100

\* C4 (failure outcome): for a job whose external process returned a
\* non-zero exit code in this pass, finished is never written, and once the
\* per-job handler is over the last write issued for the job is errored
\* with progress 0 and time estimate "0" (which is then the job's record in
\* the Job Source if that write took effect and nobody re-queued the job).
C4_NonZeroExitErrored ==
    \A j \in Jobs :
      (codes[j] # NoCode /\ codes[j] # 0) =>
        /\ lastw[j].status # finished
        /\ \A i \in DOMAIN log :
             (IsWrite(log[i]) /\ log[i].uid = j) => log[i].status # finished
        /\ HandlerDone(j) =>
             /\ lastw[j].status = errored
             /\ lastw[j].progress = 0
             /\ lastw[j].time_estimate = "0"
             /\ (lastw[j].outcome = OK /\ sealed[j]) =>
                  /\ db[j].status = errored
                  /\ db[j].progress = 0
                  /\ db[j].time_estimate = "0"

\* C4 witness: the last iteration of a pass has ended, the job's process
\* exited with code 1 and the job was left errored in the Job Source.
C4_Witness ==
    /\ pc = "for"
    /\ uids = <<>>
    /\ \E j \in Jobs : /\ codes[j] = 1
                       /\ lastw[j].status = errored
                       /\ lastw[j].outcome = OK
                       /\ db[j].status = errored
                       /\ db[j].time_estimate = "0"

\* An exception was raised inside render() in the current iteration.
RenderRaised ==
    \E i \in DOMAIN log :
       log[i].op = "raise" /\ log[i].at \in {"spawn", "heartbeat", "communicate"}

\* C5 (exception outcome): after an exception raised while spawning or
\* monitoring the external process, no exception leaves the per-job
\* handler, and the job ends the iteration written errored, 0, "0".
C5_ExceptionContained ==
    RenderRaised =>
      /\ pc # "crashed"
      /\ pc = "for" => /\ lastw[uid].status = errored
                       /\ lastw[uid].progress = 0
                       /\ lastw[uid].time_estimate = "0"

\* C6 (failure isolation): the worker never stops while eligible jobs of
\* the pass are still waiting: whatever happened to the jobs before them,
\* the remaining jobs of the snapshot are still claimed and executed.
C6_FailureIsolation ==
    pc = "crashed" => uids = <<>>

\* C7 (no fatal path): the worker loop never terminates.
C7_NoFatalPath ==
    pc # "crashed"

\* A transition of the job state machine.
Legal(from, to) ==
    \/ to = in_progress /\ from \in {ready_to_start, in_progress}
    \/ to \in TerminalStatus /\ from = in_progress

\* C8 (legal transitions only): every status write the worker issues is a
\* transition of the state machine from the status the job has in the Job
\* Source at the moment of the write.
C8_LegalTransitions ==
    [][\A i \in NewEvents :
         IsWrite(log'[i]) =>
           Legal(db[log'[i].uid].status, log'[i].status)]_vars

\* C9 (terminal finality): once a finished or errored write was issued for
\* a job, the worker issues no further status write for that job unless the
\* job was re-queued since.
C9_TerminalFinality ==
    [][\A i \in NewEvents :
         IsWrite(log'[i]) => ~sealed[log'[i].uid]]_vars

\* C10 (driver exactly once per claim): between the claim write of a job
\* and any further status write for that job, render() is invoked exactly
\* once.
C10_DriverOncePerClaim ==
    \A i \in DOMAIN log :
      (IsWrite(log[i]) /\ log[i].kind = "claim") =>
        \A k \in DOMAIN log :
          (k > i /\ IsWrite(log[k]) /\ log[k].uid = log[i].uid) =>
            Cardinality({m \in (i + 1)..(k - 1) :
                           log[m].op = "render" /\ log[m].uid = log[i].uid}) = 1

\* C11 (progress clamp): every progress value written lies in 0..100, and
\* the progress values of the successive in_progress writes of one job's
\* execution never decrease.
C11_ProgressClamp ==
    /\ \A i \in DOMAIN log :
         IsWrite(log[i]) => log[i].progress \in 0..100
    /\ \A i, k \in DOMAIN log :
         (/\ i < k
          /\ IsWrite(log[i]) /\ log[i].status = in_progress
          /\ IsWrite(log[k]) /\ log[k].status = in_progress
          /\ log[i].uid = log[k].uid) =>
            log[i].progress <= log[k].progress

\* Number of jobs of the snapshot the for loop has taken so far.
Taken == Len(snap) - Len(uids)

TerminalWritten(j) == lastw[j] # NoWrite /\ lastw[j].status \in TerminalStatus

\* C12 (sequential passes): the jobs of one snapshot are processed one after
\* the other in the order of the list: every write issued during an iteration
\* is for the job of that iteration and for no other job, the for loop moves
\* on (to the next job or to the idle sleep) only from an iteration whose job
\* has its terminal write, it takes the jobs one at a time, the idle sleep is
\* reached only from the for loop with no job of the snapshot left, and the
\* next fetch only from the idle sleep.
C12_SequentialPass ==
    [][/\ Taken \in 0..Len(snap)
       /\ uids = SubSeq(snap, Taken + 1, Len(snap))
       /\ \A i \in DOMAIN log : IsWrite(log[i]) =>
             Taken > 0 /\ log[i].uid = snap[Taken] /\ uid = snap[Taken]
       /\ \A i \in NewEvents : IsWrite(log'[i]) =>
             Taken' > 0 /\ log'[i].uid = snap'[Taken'] /\ Taken' = Taken
       /\ \A j \in Jobs : lastw[j] # NoWrite => Taken > 0 /\ j = snap[Taken]
       /\ (pc = "for" /\ Taken > 0) => TerminalWritten(snap[Taken])
       /\ Taken' > Taken => pc = "for" /\ Taken' = Taken + 1
       /\ Taken' < Taken => pc = "fetch" /\ Taken' = 0
       /\ (pc' = "idle" /\ pc # "idle") => pc = "for" /\ uids = <<>>
       /\ (pc' = "fetch" /\ pc # "fetch") => pc = "idle" /\ uids = <<>>]_vars

\* Two eligible jobs in one snapshot, both taken: the first iteration is over
\* and the second job had a heartbeat and its terminal write.
C12_Witness ==
    /\ Len(snap) = 2
    /\ uids = <<>>
    /\ pc = "for"
    /\ \E i \in DOMAIN log :
          IsWrite(log[i]) /\ log[i].kind = "heartbeat" /\ log[i].uid = snap[2]
    /\ TerminalWritten(snap[2])

\* Every spawned external process eventually exits.
ProcessesExit == Running(proc) ~> ~Running(proc)

\* C13 (eventual termination): while the worker keeps running and the Job
\* Source calls succeed, if every spawned process eventually exits then a
\* job assigned to this worker with status ready_to_start eventually has
\* status finished or errored.
C13_EventualTermination ==
    ProcessesExit =>
      \A j \in Jobs :
        (db[j].worker = WORKER_NAME /\ db[j].status = ready_to_start)
            ~> (db[j].status \in TerminalStatus)

\* C14 (no automatic retry): render() is not invoked for a job for which the
\* worker already issued its terminal write (errored, or finished after a
\* completed run), unless the job was re-queued from outside since then.
C14_NoAutomaticRetry ==
    [][\A i \in NewEvents :
         log'[i].op = "render" => ~sealed[log'[i].uid]]_vars

\* A write for job j is issued in this step.
WrittenNow(j) == \E i \in NewEvents : IsWrite(log'[i]) /\ log'[i].uid = j

\* C15 (frame of a status write): no step removes a job or changes a job's
\* assigned worker or payload paths; a step that issues a write changes at
\* most the progress, status and time estimate of the one job written to; a
\* step of the worker that issues no write changes no job; and render() is
\* started with the payload stored for its job.
C15_Frame ==
    [][/\ DOMAIN db' = DOMAIN db
       /\ \A j \in Jobs :
            /\ db'[j].worker = db[j].worker
            /\ db'[j].payload = db[j].payload
            /\ DOMAIN db'[j] = DOMAIN db[j]
            /\ db'[j] # db[j] =>
                 \/ WrittenNow(j)
                 \/ /\ NewEvents = {}
                    /\ pc' = pc
                    /\ db[j].status \in TerminalStatus
                    /\ db'[j] = [db[j] EXCEPT !.status = ready_to_start]
       /\ \A i \in NewEvents :
            log'[i].op = "render" =>
              log'[i].payload = db[log'[i].uid].payload]_vars

\* A job was executed with its stored payload and its finished write is
\* stored, while a job of another worker is as it was at the start.
C15_Witness ==
    \E j \in Jobs :
        /\ \E i \in DOMAIN log :
              /\ log[i].op = "render"
              /\ log[i].uid = j
              /\ log[i].payload = PayloadOf(j)
        /\ db[j] = [worker |-> WORKER_NAME, status |-> finished,
                    progress |-> 100, time_estimate |-> "N/A",
                    payload |-> PayloadOf(j)]
        /\ db["J3"] = [worker |-> OTHER_WORKER, status |-> ready_to_start,
                       progress |-> 0, time_estimate |-> "",
                       payload |-> PayloadOf("J3")]

\* C16 (heartbeat shape): every heartbeat write carries status in_progress
\* and the identifier render() was invoked with, and directly follows a poll
\* that found the process running; when the first poll of a render() call
\* finds the process exited, that call issues no heartbeat.
C16_HeartbeatShape ==
    \A i \in DOMAIN log :
      /\ (IsWrite(log[i]) /\ log[i].kind = "heartbeat") =>
           /\ log[i].status = in_progress
           /\ i > 1
           /\ log[i - 1].op = "poll"
           /\ log[i - 1].alive
           /\ \E r \in 1..(i - 1) :
                log[r].op = "render" /\ log[r].uid = log[i].uid
           /\ \A r \in 1..(i - 1) :
                log[r].op = "render" => log[r].uid = log[i].uid
      /\ (/\ log[i].op = "poll"
          /\ ~log[i].alive
          /\ i > 1
          /\ log[i - 1].op = "render") =>
           \A k \in DOMAIN log :
             ~(IsWrite(log[k]) /\ log[k].kind = "heartbeat")

\* Two heartbeats were issued for a job before its process was seen exited.
C16_Witness ==
    \E i, k, m \in DOMAIN log :
        /\ i < k /\ k < m
        /\ IsWrite(log[i]) /\ log[i].kind = "heartbeat"
        /\ IsWrite(log[k]) /\ log[k].kind = "heartbeat"
        /\ log[m].op = "poll" /\ ~log[m].alive

\* Jobs with a process that render() left behind still running.
Abandoned == {j \in Jobs : orphans[j] > 0}

\* C17 (no intra-worker parallelism): at most one external process spawned
\* by the worker is alive at any time, and none is alive when the worker
\* loads, claims or spawns the next job.
C17_NoParallelism ==
    /\ \A j \in Jobs : orphans[j] <= 1
    /\ Cardinality(Abandoned) <= 1
    /\ Running(proc) => Abandoned = {}
    /\ pc \in {"from_db", "claim", "render"} =>
          Abandoned = {} /\ ~Running(proc)

\* C18 (terminal status implies the process is gone): a job for which the
\* worker has issued finished or errored has no external process running.
C18_TerminalMeansExited ==
    \A j \in Jobs :
        TerminalWritten(j) =>
          /\ orphans[j] = 0
          /\ j = uid => ~Running(proc)

\* C19 (finished only on observed success): a finished write is issued only
\* after render() returned exit code 0 for the same job in the same pass; a
\* heartbeat that reports progress 100 still carries in_progress.
C19_FinishedOnlyOnSuccess ==
    /\ \A i \in DOMAIN log :
         (IsWrite(log[i]) /\ log[i].status = finished) =>
           /\ log[i].kind = "finished"
           /\ \E r \in 1..(i - 1) :
                /\ log[r].op = "returned"
                /\ log[r].uid = log[i].uid
                /\ log[r].code = 0
    /\ \A j \in Jobs :
         (lastw[j] # NoWrite /\ lastw[j].status = finished) => codes[j] = 0
    /\ \A i \in DOMAIN log :
         (IsWrite(log[i]) /\ log[i].kind = "heartbeat"
            /\ log[i].progress = 100) =>
           /\ log[i].status = in_progress
           /\ \A k \in DOMAIN log :
                (k > i /\ IsWrite(log[k]) /\ log[k].status = finished) =>
                  \E r \in (i + 1)..(k - 1) :
                    log[r].op = "returned" /\ log[r].code = 0

\* A heartbeat reported progress 100 while the process was running, and the
\* finished write came only after the process had returned exit code 0.
C19_Witness ==
    \E i, r, k \in DOMAIN log :
        /\ i < r /\ r < k
        /\ IsWrite(log[i]) /\ log[i].kind = "heartbeat"
        /\ log[i].progress = 100
        /\ log[r].op = "returned" /\ log[r].code = 0
        /\ IsWrite(log[k]) /\ log[k].status = finished

====
